---- MODULE Spec2Model ----
(***************************************************************************)
(* Model of tts_app.py: the whitespace chunker (chunk_text), the per-chunk *)
(* synthesis primitive (_tts_once), the sequential fold (synthesize_tts)   *)
(* and the "Generate" handler of the Streamlit script.                     *)
(*                                                                         *)
(* A text is a sequence of one-character strings; a chunk is a text; bytes *)
(* are sequences of small naturals.                                        *)
(***************************************************************************)
EXTENDS Naturals, Sequences, FiniteSets

VARIABLES
    ct_pc, ct_text, ct_max_len, ct_chunks, ct_rechunks,   \* chunk_text harness
    env_key, secret_key,   \* OPENAI_API_KEY present in os.environ / st.secrets
    client,                \* st.cache_resource entry of get_client
    pc,                    \* position of the script inside the generate action
    gens,                  \* generate actions started so far
    voice,                 \* voice selected for the running generate action
    chunks, idx, out,      \* locals of the generate action and synthesize_tts
    calls,                 \* client.audio.speech.create invocations of this action
    results,               \* values returned by _tts_once in this action
    messages,              \* st.error / st.success output of this action
    player,                \* what render_audio displayed
    files,                 \* OUTPUT_DIR: file name -> bytes
    writeLog               \* write_bytes invocations: <<generation, file name>>

(* ------------------------------ bounds --------------------------------- *)
MaxTextLen == 6          \* longest text given to chunk_text in SpecChunk
MaxMaxLen == 3           \* largest max_len given to chunk_text in SpecChunk
MaxAppTextLen == 3       \* longest text entered in the interface in Spec
MaxChunkChars == 1       \* MAX_CHARS_PER_CHUNK (4000 in the source) scaled to MaxAppTextLen
MaxGenerations == 2      \* number of "Generate" clicks explored

(* ------------------------------ chunker -------------------------------- *)
Whitespace == {" ", "\n"}
Chars == {"a", "b"} \cup Whitespace

RECURSIVE SplitLoop(_, _, _)
SplitLoop(text, cur, acc) ==
    IF text = <<>>
    THEN IF cur = <<>> THEN acc ELSE Append(acc, cur)
    ELSE IF Head(text) \in Whitespace
         THEN SplitLoop(Tail(text), <<>>, IF cur = <<>> THEN acc ELSE Append(acc, cur))
         ELSE SplitLoop(Tail(text), Append(cur, Head(text)), acc)

\* str.split() without arguments: runs of whitespace separate, no empty tokens
Split(text) == SplitLoop(text, <<>>, <<>>)

RECURSIVE JoinNoSep(_)
JoinNoSep(buf) ==
    IF buf = <<>> THEN <<>> ELSE Head(buf) \o JoinNoSep(Tail(buf))

RECURSIVE Join(_)
\* " ".join(buf)
Join(buf) ==
    IF buf = <<>> THEN <<>>
    ELSE IF Len(buf) = 1 THEN Head(buf)
         ELSE Head(buf) \o <<" ">> \o Join(Tail(buf))

\* add_len = len(part) + (1 if buf else 0)
AddLen(part, buf) == Len(part) + (IF buf # <<>> THEN 1 ELSE 0)

OverflowsLate(length, add_len, max_len) == length + add_len > max_len + 1

\* if length + add_len > max_len
Overflows(length, add_len, max_len) == length + add_len > max_len

FlushBufNever(emitted, buf) == emitted

\* if buf: emitted.append(" ".join(buf))
FlushBuf(emitted, buf) ==
    IF buf # <<>> THEN Append(emitted, Join(buf)) ELSE emitted

RECURSIVE ChunkLoop(_, _, _, _, _)
ChunkLoop(parts, emitted, buf, length, max_len) ==
    IF parts = <<>>
    THEN FlushBuf(emitted, buf)
    ELSE LET part == Head(parts)
             add_len == AddLen(part, buf)
         IN  IF Overflows(length, add_len, max_len)
             THEN ChunkLoop(Tail(parts), FlushBuf(emitted, buf), <<part>>, Len(part), max_len)
             ELSE ChunkLoop(Tail(parts), emitted, Append(buf, part), length + add_len, max_len)

chunk_text(text, max_len) == ChunkLoop(Split(text), <<>>, <<>>, 0, max_len)

(* --------------------------- chunker harness --------------------------- *)
ctvars == <<ct_pc, ct_text, ct_max_len, ct_chunks, ct_rechunks>>

(* ------------------------------ application --------------------------- *)
appvars == <<env_key, secret_key, client, pc, gens, voice, chunks, idx, out,
             calls, results, messages, player, files, writeLog>>

vars == <<ctvars, appvars>>

Texts(n) == UNION {[1..k -> Chars] : k \in 0..n}

InitChunk ==
    /\ ct_pc = "input"
    /\ ct_text \in Texts(MaxTextLen)
    /\ ct_max_len \in 1..MaxMaxLen
    /\ ct_chunks = <<>>
    /\ ct_rechunks = <<>>
    /\ env_key = TRUE /\ secret_key = TRUE /\ client = "none"
    /\ pc = "idle" /\ gens = 0 /\ voice = "alloy"
    /\ chunks = <<>> /\ idx = 0 /\ out = <<>>
    /\ calls = <<>> /\ results = <<>> /\ messages = <<>>
    /\ player = "none" /\ files = <<>> /\ writeLog = <<>>

\* chunks = chunk_text(text, max_len)
CallChunk ==
    /\ ct_pc = "input"
    /\ ct_chunks' = chunk_text(ct_text, ct_max_len)
    /\ ct_pc' = "chunked"
    /\ UNCHANGED <<ct_text, ct_max_len, ct_rechunks, appvars>>

\* chunk_text(" ".join(chunks), max_len)
CallRechunk ==
    /\ ct_pc = "chunked"
    /\ ct_rechunks' = chunk_text(Join(ct_chunks), ct_max_len)
    /\ ct_pc' = "rechunked"
    /\ UNCHANGED <<ct_text, ct_max_len, ct_chunks, appvars>>

NextChunk == CallChunk \/ CallRechunk

SpecChunk == InitChunk /\ [][NextChunk]_vars

\* two of the thirteen ALLOWED_VOICES
Voices == {"alloy", "echo"}
\* values of uuid.uuid4().hex[:8]
Suffixes == {"0a1b2c3d", "ffffffff"}
\* audio segments the remote service may return
Payloads == {<<>>, <<1>>, <<2>>}
\* what client.audio.speech.create may raise
Exceptions == {"TypeError", "APIConnectionError", "AuthenticationError", "RateLimitError"}
\* response objects: which attributes the SDK's return value has
Shapes == {"content", "read", "bytes", "data", "other"}
AppChars == {"a", " "}
AppTexts == UNION {[1..k -> AppChars] : k \in 0..MaxAppTextLen}

\* key = os.environ.get(...) or st.secrets.get(...); if not key: ...
KeyPresentAlways(env, secret) == TRUE

KeyPresent(env, secret) == env \/ secret

\* except TypeError: around the first create() call
RecoverableNever(exc) == FALSE

RecoverableAlways(exc) == TRUE

Recoverable(exc) == exc = "TypeError"

\* except Exception as e: of the generate action.  st.stop() raises
\* StopException, which derives from BaseException and passes through.
IsExceptionNever(exc) == FALSE

IsException(exc) == exc # "StopException"

\* normalisation of the response to bytes
Normalize(shape, payload) ==
    IF shape = "content" THEN payload            \* r.content
    ELSE IF shape = "read" THEN payload          \* r.read()
    ELSE IF shape = "bytes" THEN payload         \* bytes(r)
    ELSE IF shape = "data" THEN payload          \* getattr(r, "data", b"")
    ELSE <<>>                                    \* getattr default b""

\* out.write(b)
WritePrepend(buffer, b) == b \o buffer

Write(buffer, b) == buffer \o b

\* if size == 0
NoAudioNever(size) == FALSE

NoAudio(size) == size = 0

\* fname = f"{voice}-{uuid.uuid4().hex[:8]}.mp3"
FileName(v, suffix) == <<v, suffix>>

\* (OUTPUT_DIR / fname).write_bytes(audio_bytes)
WriteBytes(dir, fname, data) ==
    [n \in DOMAIN dir \cup {fname} |-> IF n = fname THEN data ELSE dir[n]]

\* what a create() invocation that returned is logged as
Answer(shape) == IF shape = "other" THEN "malformed" ELSE "response"

Call(param, outcome) == [chunk |-> idx, param |-> param, outcome |-> outcome]

Init ==
    /\ ct_pc = "input" /\ ct_text = <<>> /\ ct_max_len = 1
    /\ ct_chunks = <<>> /\ ct_rechunks = <<>>
    /\ env_key \in BOOLEAN
    /\ secret_key \in BOOLEAN
    /\ client = "none"
    /\ pc = "idle"
    /\ gens = 0
    /\ voice = "alloy"
    /\ chunks = <<>> /\ idx = 0 /\ out = <<>>
    /\ calls = <<>> /\ results = <<>>
    /\ messages = <<>>
    /\ player = "none"
    /\ files = <<>>
    /\ writeLog = <<>>

\* the statements after synthesize_tts returned audio_bytes
Finish(audio_bytes) ==
    /\ pc' = "idle"
    /\ IF NoAudio(Len(audio_bytes))
       THEN /\ messages' = Append(messages, "no_audio")
            /\ UNCHANGED <<files, writeLog, player>>
       ELSE \E suffix \in Suffixes :
              /\ files' = WriteBytes(files, FileName(voice, suffix), audio_bytes)
              /\ writeLog' = Append(writeLog, <<gens, FileName(voice, suffix)>>)
              /\ messages' = Append(messages, "done")
              /\ player' \in {"audio", "html"}      \* render_audio: st.audio or fallback

\* an exception leaves the try block of the generate action
Raise(exc) ==
    /\ pc' = "idle"
    /\ messages' = IF IsException(exc) THEN Append(messages, "error") ELSE messages
    /\ UNCHANGED <<files, writeLog, player>>

\* "Generate" clicked: chunk_text, then synthesize_tts up to its first call
Generate ==
    /\ pc = "idle"
    /\ gens < MaxGenerations
    /\ \E text \in AppTexts, v \in Voices :
         /\ Split(text) # <<>>                      \* disabled = not text.strip()
         /\ gens' = gens + 1
         /\ voice' = v
         /\ chunks' = chunk_text(text, MaxChunkChars)
         /\ idx' = 1 /\ out' = <<>> /\ calls' = <<>> /\ results' = <<>>
         /\ IF client # "none"
            THEN /\ pc' = "create_format"
                 /\ messages' = <<>> /\ player' = "none"
                 /\ UNCHANGED <<client, files, writeLog>>
            ELSE IF KeyPresent(env_key, secret_key)
            THEN /\ client' = "OpenAI"
                 /\ pc' = "create_format"
                 /\ messages' = <<>> /\ player' = "none"
                 /\ UNCHANGED <<files, writeLog>>
            ELSE /\ pc' = "idle"
                 /\ messages' = IF IsException("StopException")
                                THEN <<"missing_key", "error">>
                                ELSE <<"missing_key">>
                 /\ player' = "none"
                 /\ UNCHANGED <<client, files, writeLog>>
    /\ UNCHANGED <<env_key, secret_key, ctvars>>

\* _tts_once returned b to the loop of synthesize_tts
Returned(b) ==
    /\ out' = Write(out, b)
    /\ results' = Append(results, b)
    /\ IF idx < Len(chunks)
       THEN /\ idx' = idx + 1
            /\ pc' = "create_format"
            /\ UNCHANGED <<messages, player, files, writeLog>>
       ELSE /\ idx' = idx
            /\ Finish(out')

\* create(..., format="mp3") answers or raises
CreateFormat ==
    /\ pc = "create_format"
    /\ \/ \E shape \in Shapes, payload \in Payloads :
            /\ calls' = Append(calls, Call("format", Answer(shape)))
            /\ Returned(Normalize(shape, payload))
       \/ \E exc \in Exceptions :
            /\ calls' = Append(calls, Call("format", exc))
            /\ IF Recoverable(exc)
               THEN /\ pc' = "create_response_format"
                    /\ UNCHANGED <<idx, out, results, messages, player, files, writeLog>>
               ELSE /\ Raise(exc)
                    /\ UNCHANGED <<idx, out, results>>
    /\ UNCHANGED <<env_key, secret_key, client, gens, voice, chunks, ctvars>>

\* create(..., response_format="mp3") answers or raises
CreateResponseFormat ==
    /\ pc = "create_response_format"
    /\ \/ \E shape \in Shapes, payload \in Payloads :
            /\ calls' = Append(calls, Call("response_format", Answer(shape)))
            /\ Returned(Normalize(shape, payload))
       \/ \E exc \in Exceptions :
            /\ calls' = Append(calls, Call("response_format", exc))
            /\ Raise(exc)
            /\ UNCHANGED <<idx, out, results>>
    /\ UNCHANGED <<env_key, secret_key, client, gens, voice, chunks, ctvars>>

Next == Generate \/ CreateFormat \/ CreateResponseFormat

Spec == Init /\ [][Next]_vars

(* ----------------------------- chunker claims -------------------------- *)

\* C1: joining the chunks with single spaces and splitting on whitespace
\* gives exactly the token sequence of the original text.
TokensPreserved ==
    ct_pc # "input" => Split(Join(ct_chunks)) = Split(ct_text)

\* C1 witness: a text with a whitespace run, chunked into several chunks,
\* one of them holding two tokens.
TokensPreservedWitness ==
    /\ ct_pc = "chunked"
    /\ Len(ct_chunks) >= 2
    /\ \E i \in 1..Len(ct_chunks) : Len(Split(ct_chunks[i])) >= 2
    /\ Len(Join(ct_chunks)) < Len(ct_text)

\* C2: every chunk has length <= max_len, except a chunk that is exactly one
\* token of the text whose own length exceeds max_len.
ChunkBounded ==
    ct_pc # "input" =>
        \A i \in 1..Len(ct_chunks) :
            \/ Len(ct_chunks[i]) <= ct_max_len
            \/ /\ Split(ct_chunks[i]) = <<ct_chunks[i]>>
               /\ \E j \in 1..Len(Split(ct_text)) : Split(ct_text)[j] = ct_chunks[i]

\* C2 witness: an oversized token emitted alone between two chunks that
\* respect the limit.
ChunkBoundedWitness ==
    /\ ct_pc = "chunked"
    /\ \E i \in 2..(Len(ct_chunks) - 1) :
          /\ Len(ct_chunks[i]) > ct_max_len
          /\ Len(ct_chunks[i - 1]) <= ct_max_len
          /\ Len(ct_chunks[i + 1]) <= ct_max_len

\* C9: re-chunking the rejoined chunks with the same max_len returns the
\* same chunks.
RechunkStable ==
    ct_pc = "rechunked" => ct_rechunks = ct_chunks

\* C9 witness: a re-chunked text of several chunks, one with two tokens,
\* whose original whitespace was not already normalised.
RechunkStableWitness ==
    /\ ct_pc = "rechunked"
    /\ Len(ct_chunks) >= 2
    /\ \E i \in 1..Len(ct_chunks) : Len(Split(ct_chunks[i])) >= 2
    /\ Join(ct_chunks) # ct_text

(* --------------------------- application claims ------------------------ *)
Answered(c) == c.outcome \in {"response", "malformed"}

\* a first attempt turned down for its parameter name: the client library
\* raises TypeError while binding the arguments, nothing is sent
Rejected(c) == c.param = "format" /\ c.outcome = "TypeError"

\* a create() invocation that ended the _tts_once call with an exception
Failed(c) == c.outcome \in Exceptions /\ ~Rejected(c)

RemoteCalls == SelectSeq(calls, LAMBDA c : ~Rejected(c))

RECURSIVE Concat(_)
Concat(segments) ==
    IF segments = <<>> THEN <<>> ELSE Head(segments) \o Concat(Tail(segments))

\* synthesize_tts returned to the generate action
SynthReturned == pc = "idle" /\ messages \in {<<"done">>, <<"no_audio">>}

NoWriteThisGen == \A k \in 1..Len(writeLog) : writeLog[k][1] # gens

\* C3: when synthesize_tts returns for N chunks, exactly N remote calls were
\* issued, the k-th for chunk k, _tts_once returned N results, and the audio
\* is the concatenation of the N results in chunk order.
SynthesisFold ==
    SynthReturned =>
        /\ Len(RemoteCalls) = Len(chunks)
        /\ \A k \in 1..Len(RemoteCalls) : RemoteCalls[k].chunk = k /\ Answered(RemoteCalls[k])
        /\ Len(results) = Len(chunks)
        /\ out = Concat(results)

\* C3 witness: two chunks synthesized to different non-empty segments, the
\* second through the alternate parameter name.
SynthesisFoldWitness ==
    /\ SynthReturned
    /\ Len(chunks) = 2
    /\ results = <<<<1>>, <<2>>>>
    /\ Len(calls) = 3
    /\ calls[3].param = "response_format"

\* C4: a first attempt rejected with TypeError is followed by exactly one
\* attempt for the same chunk with response_format; when that one answers,
\* _tts_once returns a result and no error is shown; when it raises, the
\* action has ended with the error.
FallbackOnce ==
    /\ \A j \in 1..Len(calls) :
          Rejected(calls[j]) =>
             IF j = Len(calls)
             THEN pc = "create_response_format" /\ messages = <<>>
             ELSE /\ calls[j + 1].param = "response_format"
                  /\ calls[j + 1].chunk = calls[j].chunk
                  /\ Answered(calls[j + 1]) =>
                        /\ Len(results) >= calls[j].chunk
                        /\ (j + 1 = Len(calls) => "error" \notin {messages[m] : m \in 1..Len(messages)})
                  /\ ~Answered(calls[j + 1]) =>
                        /\ j + 1 = Len(calls)
                        /\ Len(results) = calls[j].chunk - 1
                        /\ pc = "idle" /\ messages = <<"error">>
    /\ \A j \in 1..Len(calls) :
          calls[j].param = "response_format" => j > 1 /\ Rejected(calls[j - 1])

\* C4 witness: chunk 1 recovered by the alternate name, chunk 2 failing on
\* both names.
FallbackOnceWitness ==
    /\ Len(calls) = 4
    /\ Rejected(calls[1]) /\ Answered(calls[2])
    /\ Rejected(calls[3]) /\ calls[4].outcome = "TypeError"
    /\ results = <<<<1>>>>

\* C5: without a credential in the environment and in the secrets, a
\* generate action stops with the configuration message only: no create()
\* call, no client, no file, no message of the generic handler.
MissingKeyHalts ==
    (gens > 0 /\ ~env_key /\ ~secret_key) =>
        /\ pc = "idle"
        /\ messages = <<"missing_key">>
        /\ calls = <<>>
        /\ client = "none"
        /\ files = <<>> /\ writeLog = <<>>

\* C5 witness: two generate actions without a credential.
MissingKeyHaltsWitness ==
    /\ gens = 2 /\ ~env_key /\ ~secret_key
    /\ messages = <<"missing_key">>
    /\ chunks # <<>>

\* C6 (as stated): a completed action in which some call returned zero
\* bytes reports "no audio" and writes no file.
ZeroBytesCallNoFile ==
    (pc = "idle" /\ gens > 0 /\ Len(results) = Len(chunks)
        /\ \E k \in 1..Len(results) : results[k] = <<>>) =>
        messages = <<"no_audio">> /\ NoWriteThisGen

\* C6 (amended): a completed action in which every call returned zero bytes
\* reports "no audio" and writes no file.
AllZeroBytesNoFile ==
    (pc = "idle" /\ gens > 0 /\ Len(results) = Len(chunks)
        /\ \A k \in 1..Len(results) : results[k] = <<>>) =>
        messages = <<"no_audio">> /\ NoWriteThisGen /\ player = "none"

\* C6 witness: two chunks, both synthesized to zero bytes, after an earlier
\* successful generation.
AllZeroBytesNoFileWitness ==
    /\ pc = "idle" /\ gens = 2
    /\ results = <<<<>>, <<>>>>
    /\ messages = <<"no_audio">>
    /\ Len(writeLog) = 1

\* C7: a call that fails for chunk k without being recovered is the last
\* call of the action; the action ends with the error message, writes no
\* file, holds only the results before k, and Generate can be clicked again.
ErrorTerminal ==
    \A j \in 1..Len(calls) :
        Failed(calls[j]) =>
            /\ j = Len(calls)
            /\ pc = "idle"
            /\ messages = <<"error">>
            /\ NoWriteThisGen
            /\ player = "none"
            /\ (gens < MaxGenerations => ENABLED Generate)

\* C7 witness: chunk 1 synthesized, chunk 2 failing on the network.
ErrorTerminalWitness ==
    /\ gens = 1 /\ Len(chunks) = 2
    /\ results = <<<<1>>>>
    /\ Len(calls) = 2
    /\ calls[2].outcome = "APIConnectionError"
    /\ files = <<>>

\* C8 (as stated): no file name is written by two generations.
NeverOverwritten ==
    \A j, k \in 1..Len(writeLog) : j # k => writeLog[j][2] # writeLog[k][2]

\* C10 (as stated): a call that raises anything but the first attempt's
\* TypeError, or that answers in an unrecognised shape, is the last call for
\* its chunk and leaves no result for it.
FailureNeverBytes ==
    \A j \in 1..Len(calls) :
        (Failed(calls[j]) \/ calls[j].outcome = "malformed") =>
            /\ \A m \in (j + 1)..Len(calls) : calls[m].chunk # calls[j].chunk
            /\ Len(results) < calls[j].chunk

\* C10 (amended): a call that raises anything but the first attempt's
\* TypeError is the last call for its chunk and leaves no result for it; a
\* call that answers in an unrecognised shape is the last call for its chunk
\* and leaves the empty byte string as its result.
FailurePropagates ==
    \A j \in 1..Len(calls) :
        /\ Failed(calls[j]) =>
            /\ \A m \in (j + 1)..Len(calls) : calls[m].chunk # calls[j].chunk
            /\ Len(results) < calls[j].chunk
        /\ calls[j].outcome = "malformed" =>
            /\ \A m \in (j + 1)..Len(calls) : calls[m].chunk # calls[j].chunk
            /\ Len(results) >= calls[j].chunk
            /\ results[calls[j].chunk] = <<>>

\* C10 witness: chunk 1 answered in an unrecognised shape, chunk 2 failing
\* on the quota.
FailurePropagatesWitness ==
    /\ Len(calls) = 2
    /\ calls[1].outcome = "malformed"
    /\ calls[2].outcome = "RateLimitError"
    /\ results = <<<<>>>>
    /\ pc = "idle"
====
